---- MODULE Spec2Model ----
(***************************************************************************)
(* A model of the buffer analysis service of src/app.py: the /api/analyze  *)
(* handler, its request parsing, schema lookup, CRS normalisation, buffer  *)
(* join, tier counting and the two exports.                                *)
(*                                                                         *)
(* Geometry is modelled on one axis with integer coordinates.  A geometry  *)
(* is a closed interval <<a, b>> (a point when a = b).  A region of the    *)
(* axis is a set of cells: the cell 2k is the point k and the cell 2k+1 is *)
(* the open interval (k, k+1).  With integer end points and integer radii  *)
(* this represents buffers, their union, interiors and boundaries exactly, *)
(* so that the DE-9IM predicate `within' is computed, not assumed.         *)
(***************************************************************************)
EXTENDS Integers, Sequences, FiniteSets, TLC

\* ---------------------------------------------------------------- bounds
MaxLines == 2
MaxPoints == 2
MaxClock == 3
NumReq == 2
TicksPerSecond == 2
MaxNameLen == 2
MaxLat == 2

\* ------------------------------------------------------ program constants
DefaultBufferSize == 30

Reqs == 1..NumReq

\* ------------------------------------------------------------- utilities
RECURSIVE SumSet(_)
SumSet(S) ==
  IF S = {} THEN 0
  ELSE LET x == CHOOSE y \in S : TRUE IN x + SumSet(S \ {x})

SetMin(S) == CHOOSE x \in S : \A y \in S : x <= y

Range(s) == {s[i] : i \in 1..Len(s)}

\* Python's int() of a quotient of integers: truncation towards zero.
TruncDiv(n, d) == IF n >= 0 THEN n \div d ELSE -((-n) \div d)

FloorDiv(n, d) == n \div d

\* ------------------------------------------------------------------ names
\* A name is a sequence of characters; str.lower, str.upper and
\* str.capitalize act character by character.
LowerCase ==
  <<"a", "b", "c", "d", "e", "f", "g", "h", "i", "j", "k", "l", "m",
    "n", "o", "p", "q", "r", "s", "t", "u", "v", "w", "x", "y", "z">>
UpperCase ==
  <<"A", "B", "C", "D", "E", "F", "G", "H", "I", "J", "K", "L", "M",
    "N", "O", "P", "Q", "R", "S", "T", "U", "V", "W", "X", "Y", "Z">>

LowerCh(c) ==
  IF \E i \in 1..26 : UpperCase[i] = c
  THEN LowerCase[CHOOSE i \in 1..26 : UpperCase[i] = c] ELSE c
UpperCh(c) ==
  IF \E i \in 1..26 : LowerCase[i] = c
  THEN UpperCase[CHOOSE i \in 1..26 : LowerCase[i] = c] ELSE c

\* The characters the requested tier names are drawn from.
Alphabet == {"a", "A", "b", "B"}

Lower(s) == [i \in 1..Len(s) |-> LowerCh(s[i])]
Upper(s) == [i \in 1..Len(s) |-> UpperCh(s[i])]
Capitalize(s) == [i \in 1..Len(s) |-> IF i = 1 THEN UpperCh(s[i]) ELSE LowerCh(s[i])]

NamesUpTo(n) == UNION {[1..k -> Alphabet] : k \in 1..n}

\* The candidates line 158 tries, in order.
TierCandidates(tier_column) ==
  <<tier_column, Lower(tier_column), Upper(tier_column), Capitalize(tier_column)>>

NoTier == [found |-> FALSE, name |-> <<>>]

\* Lines 157-161: the first candidate that is a column, or None.
ResolveTier(tier_column, columns) ==
  LET cands == TierCandidates(tier_column)
      hits == {i \in 1..Len(cands) : cands[i] \in columns}
  IN IF hits = {} THEN NoTier
     ELSE [found |-> TRUE, name |-> cands[SetMin(hits)]]

\* Python truthiness of tier_col_found: None and the empty string are falsy.
Truthy(t) == t.found /\ Len(t.name) > 0

NotFoundSuffix == <<" (not found)">>

\* A field that is silently empty when no column was found.
TierColumnFieldSilent(t, tier_column) == IF Truthy(t) THEN t.name ELSE <<>>

\* Line 241: the resolved name, or the requested one with the sentinel suffix.
TierColumnField(t, tier_column) ==
  IF Truthy(t) THEN t.name ELSE tier_column \o NotFoundSuffix

IsNotFound(field) == Len(field) >= 1 /\ field[Len(field)] = NotFoundSuffix[1]

\* --------------------------------------------------------------- geometry
Cells(g) == (2 * g[1])..(2 * g[2])

InteriorG(g) == IF g[1] = g[2] THEN {2 * g[1]} ELSE (2 * g[1] + 1)..(2 * g[2] - 1)

IsOdd(c) == c % 2 = 1

\* The interior of a closed region: its open cells, and the points both of
\* whose neighbouring open cells it holds.
InteriorP(S) == {c \in S : IsOdd(c) \/ ({c - 1, c + 1} \subseteq S)}

\* shapely's within(): no part of g outside S, and the interiors meet.
Within(g, S) == Cells(g) \subseteq S /\ InteriorG(g) \cap InteriorP(S) # {}

\* geometry.buffer(r): the closed r-neighbourhood; empty when r <= 0.
Buffer(g, r) == IF r > 0 THEN Cells(<<g[1] - r, g[2] + r>>) ELSE {}

UnaryUnion(polys) == UNION Range(polys)

\* The cells of top dimension of a union of geometries: its open cells when
\* it has any, its points otherwise.
TopCells(S) == IF \E c \in S : IsOdd(c) THEN {c \in S : IsOdd(c)} ELSE S

\* The centroid of a region is CentroidNum / CentroidDen (cell c has its
\* middle at c / 2).
CentroidNum(S) == SumSet(TopCells(S))
CentroidDen(S) == 2 * Cardinality(TopCells(S))

\* -------------------------------------------------------------------- UTM
\* Line 135 for lon = num / den: int((lon + 180) / 6) + 1.
UtmZoneQ(num, den) == TruncDiv(num + 180 * den, 6 * den) + 1

UtmZone(lon) == UtmZoneQ(lon, 1)

\* Line 136.
Hemisphere(lat) == IF lat >= 0 THEN "north" ELSE "south"

\* -------------------------------------------------------------------- CRS
NoCrs == [kind |-> "none", code |-> 0, south |-> FALSE]

\* The CRS read_postgis derives from the SRID of the first geometry; SRID 0
\* is "no CRS".
CrsOfSrid(srid) ==
  IF srid = 0 THEN NoCrs
  ELSE [kind |-> IF srid = 4326 THEN "geographic" ELSE "projected",
        code |-> srid, south |-> FALSE]

\* Line 137: the UTM projection of a zone and hemisphere.
UtmCrs(zone, hemisphere) ==
  [kind |-> "utm", code |-> zone, south |-> (hemisphere = "south")]

IsGeographic(crs) == crs.kind = "geographic"

\* Each CRS is a frame on the axis.  Geographic coordinates are the ground
\* positions; a projected CRS has its origin one unit west; the UTM frame of
\* a zone measures from its central meridian 6 * zone - 183, plus the false
\* easting.
GroundOf(x, crs) ==
  CASE crs.kind = "geographic" -> x
    [] crs.kind = "projected" -> x - 1
    [] crs.kind = "utm" -> x - 500 + (6 * crs.code - 183)
    [] OTHER -> x

FromGround(x, crs) ==
  CASE crs.kind = "geographic" -> x
    [] crs.kind = "projected" -> x + 1
    [] crs.kind = "utm" -> x + 500 - (6 * crs.code - 183)
    [] OTHER -> x

Transform(g, from, to) ==
  <<FromGround(GroundOf(g[1], from), to), FromGround(GroundOf(g[2], from), to)>>

\* GeoDataFrame.to_crs raises on a collection without CRS, on a missing
\* target and on a projection pyproj rejects (a UTM zone outside 1..60).
ToCrsError(coll, target) ==
  IF coll.crs.kind = "none" THEN "Cannot transform naive geometries"
  ELSE IF target.kind = "none" THEN "Must pass either crs or epsg"
  ELSE IF target.kind = "utm" /\ target.code \notin 1..60 THEN "Invalid projection"
  ELSE ""

ToCrs(coll, target) ==
  [coll EXCEPT !.crs = target,
               !.rows = [i \in 1..Len(coll.rows) |->
                          [coll.rows[i] EXCEPT !.geom = Transform(@, coll.crs, target)]]]

\* --------------------------------------------------------------- database
GeomName == <<"g", "e", "o", "m">>
GidName == <<"g", "i", "d">>
IdName == <<"i", "d">>
SeverityName == <<"s", "e", "v", "e", "r", "i", "t", "y">>

TableNames == {"roads", "sites", "notes"}

EmptyColl == [crs |-> NoCrs, geomcol |-> <<>>, cols |-> {}, attr |-> <<>>,
              lat |-> 0, rows |-> <<>>]

\* The columns of a table: its geometry column and its attribute, if any.
ColumnsOf(t) == {t.geomcol} \cup (IF t.hasattr THEN {t.attr} ELSE {})

\* Lines 121-122: gpd.read_postgis("SELECT * FROM table", geom_col).  The
\* CRS comes from the first geometry, so an empty result has none.
ReadPostgis(t, geom_col) ==
  [crs |-> IF Len(t.rows) = 0 THEN NoCrs ELSE CrsOfSrid(t.srid),
   geomcol |-> geom_col,
   cols |-> ColumnsOf(t),
   attr |-> IF t.hasattr THEN t.attr ELSE <<>>,
   lat |-> t.lat,
   rows |-> t.rows]

\* Lines 101-108: the geometry_columns rows of the two tables, as a mapping.
GeomInfo(database, line_table, point_table) ==
  LET hit == {n \in {line_table, point_table} \cap TableNames : database[n].registered}
  IN [n \in hit |-> database[n].geomcol]

\* --------------------------------------------------------- CRS normaliser
\* The cells of the union of the geometries of a collection.
UnionCells(coll) == UNION {Cells(coll.rows[i].geom) : i \in 1..Len(coll.rows)}

\* Lines 126-144.  err is the message of the exception raised, "" if none.
NormalizeCrs(lines, points) ==
  LET differ == lines.crs # points.crs
      err1 == IF differ THEN ToCrsError(points, lines.crs) ELSE ""
      points1 == IF differ /\ err1 = "" THEN ToCrs(points, lines.crs) ELSE points
      cells == UnionCells(lines)
      utm_zone == UtmZoneQ(CentroidNum(cells), CentroidDen(cells))
      hemisphere == Hemisphere(lines.lat)
      utm_crs == UtmCrs(utm_zone, hemisphere)
  IN IF err1 # ""
       THEN [err |-> err1, points |-> points, lines_proj |-> EmptyColl,
             points_proj |-> EmptyColl]
     ELSE IF lines.crs.kind = "none"
       THEN [err |-> "'NoneType' object has no attribute 'is_geographic'",
             points |-> points1, lines_proj |-> EmptyColl, points_proj |-> EmptyColl]
     ELSE IF IsGeographic(lines.crs)
       THEN IF ToCrsError(lines, utm_crs) # ""
              THEN [err |-> ToCrsError(lines, utm_crs), points |-> points1,
                    lines_proj |-> EmptyColl, points_proj |-> EmptyColl]
            ELSE [err |-> "", points |-> points1,
                  lines_proj |-> ToCrs(lines, utm_crs),
                  points_proj |-> ToCrs(points1, utm_crs)]
     ELSE [err |-> "", points |-> points1, lines_proj |-> lines,
           points_proj |-> points1]

\* ----------------------------------------------------- buffer-join engine
\* Line 147: one buffer per line.
Buffers(lines_proj, buffer_size) ==
  [i \in 1..Len(lines_proj.rows) |-> Buffer(lines_proj.rows[i].geom, buffer_size)]

\* Line 173: the points within one buffer polygon, as row numbers.
PointsWithin(points_proj, poly) ==
  {j \in 1..Len(points_proj.rows) : Within(points_proj.rows[j].geom, poly)}

\* A join that keeps one buffer where the union is meant.
PointsInLastBuffer(points_proj, buffers) ==
  IF Len(buffers) = 0 THEN {}
  ELSE PointsWithin(points_proj, buffers[Len(buffers)])

\* Lines 150-151: the points within the union of all buffers.
PointsInBuffer(points_proj, buffers) ==
  PointsWithin(points_proj, UnaryUnion(buffers))

\* ------------------------------------------------------------- aggregator
\* str() of a column value.
Str(v) ==
  CASE v = "int:1" -> "1"
    [] v = "str:1" -> "1"
    [] v = "str:high" -> "high"
    [] v = "str:low" -> "low"
    [] v = "int:7" -> "7"
    [] OTHER -> v

\* The value a row has in a column (the geometry column holds geometries).
ValueOf(coll, j, col) == IF col = coll.attr THEN coll.rows[j].val ELSE "geometry"

\* Series.value_counts(): the count of each distinct value; nulls are dropped.
ValueCounts(coll, idxs, col) ==
  LET vals == {ValueOf(coll, j, col) : j \in idxs} \ {"null"}
  IN [v \in vals |-> Cardinality({j \in idxs : ValueOf(coll, j, col) = v})]

\* {str(k): int(v) for k, v in counts.items()}: counts come in descending
\* order and a later item overwrites an earlier one with the same key, so a
\* key keeps the smallest count of the values that share it.
StrKeyed(counts) ==
  [k \in {Str(v) : v \in DOMAIN counts} |->
     SetMin({counts[v] : v \in {w \in DOMAIN counts : Str(w) = k}})]

\* Lines 180-184.
LineId(lines_proj, i) ==
  IF GidName \in lines_proj.cols \/ IdName \in lines_proj.cols
  THEN [src |-> "column", n |-> 0, val |-> lines_proj.rows[i].val]
  ELSE [src |-> "index", n |-> (i - 1) + 1, val |-> "none"]

\* Lines 186-193: the entry of line i, whose buffer holds the points idxs.
LineResult(lines_proj, points_proj, i, idxs, tier) ==
  IF Truthy(tier) /\ Cardinality(idxs) > 0
  THEN [line_id |-> LineId(lines_proj, i), total_points |-> Cardinality(idxs),
        tier_counts |-> StrKeyed(ValueCounts(points_proj, idxs, tier.name))]
  ELSE [line_id |-> LineId(lines_proj, i), total_points |-> Cardinality(idxs)]

\* Lines 170-195: the entries of the lines whose buffer holds a point, from
\* line i on.
RECURSIVE ResultsFrom(_, _, _, _, _)
ResultsFrom(lines_proj, points_proj, in_line, tier, i) ==
  IF i > Len(lines_proj.rows) THEN <<>>
  ELSE IF Cardinality(in_line[i]) = 0
    THEN ResultsFrom(lines_proj, points_proj, in_line, tier, i + 1)
  ELSE <<LineResult(lines_proj, points_proj, i, in_line[i], tier)>>
         \o ResultsFrom(lines_proj, points_proj, in_line, tier, i + 1)

\* Lines 146-195.  tier_column is [kind, name]; a JSON null has no lower().
RunAnalysis(lines_proj, points_proj, buffer_size, tier_column) ==
  LET buffers == Buffers(lines_proj, buffer_size)
      in_buffer == PointsInBuffer(points_proj, buffers)
      total_points == Cardinality(in_buffer)
      tier == ResolveTier(tier_column.name, points_proj.cols)
      in_line == [i \in 1..Len(buffers) |-> PointsWithin(points_proj, buffers[i])]
  IN IF tier_column.kind # "name"
       THEN [err |-> "'NoneType' object has no attribute 'lower'",
             buffers |-> buffers, in_buffer |-> in_buffer, in_line |-> in_line,
             tier |-> NoTier, tier_counts |-> <<>>, results_by_line |-> <<>>]
     ELSE [err |-> "", buffers |-> buffers, in_buffer |-> in_buffer,
           in_line |-> in_line, tier |-> tier,
           tier_counts |-> IF Truthy(tier) /\ total_points > 0
                           THEN StrKeyed(ValueCounts(points_proj, in_buffer, tier.name))
                           ELSE <<>>,
           results_by_line |-> ResultsFrom(lines_proj, points_proj, in_line, tier, 1)]

\* ================================================================= state
VARIABLES
  db,      \* the spatial database: table name -> table
  clock,   \* the wall clock, in ticks of 1 / TicksPerSecond second
  files,   \* the upload folder: file name -> who wrote each part of it
  inbox,   \* the body of the request each handler invocation was sent
  pc,      \* where each invocation of analyze() is
  loc,     \* the local variables of each invocation
  resp,    \* the response of each invocation
  probe    \* the argument and result of a helper applied on its own

vars == <<db, clock, files, inbox, pc, loc, resp, probe>>

NoFile == [kind |-> "none", ts |-> 0]

\* Lines 198-211: strftime('%Y%m%d_%H%M%S') keeps whole seconds only.
Timestamp(now) == now \div TicksPerSecond
CsvFilename(timestamp) == [kind |-> "csv", ts |-> timestamp]
GpkgFilename(timestamp) == [kind |-> "gpkg", ts |-> timestamp]

Filenames == {[kind |-> k, ts |-> t] : k \in {"csv", "gpkg"}, t \in 0..Timestamp(MaxClock)}

Layers == <<"original_lines", "all_points", "points_in_buffer", "buffers">>

NoRequest == [kind |-> "unused"]
NoResponse == [status |-> 0]

LocInit ==
  [database |-> "", line_table |-> "", point_table |-> "", buffer_size |-> 0,
   tier_column |-> [kind |-> "absent", name |-> <<>>],
   line_geom_col |-> <<>>, point_geom_col |-> <<>>,
   lines |-> EmptyColl, points |-> EmptyColl,
   lines_proj |-> EmptyColl, points_proj |-> EmptyColl,
   buffers |-> <<>>, in_buffer |-> {}, in_line |-> <<>>,
   tier |-> NoTier, tier_counts |-> <<>>, results_by_line |-> <<>>,
   csv_filename |-> NoFile, gpkg_filename |-> NoFile, layer |-> 0,
   read_done |-> FALSE, buffered |-> FALSE, csv_done |-> FALSE, raised |-> ""]

\* ------------------------------------------------------------- responses
\* A handler that catches ValueError only: any other exception leaves the
\* invocation without a response of its own.
ExceptionResponseValueErrorOnly(e) ==
  IF e = "could not convert string to float" THEN [status |-> 500, error |-> <<e>>]
  ELSE NoResponse

\* A message is the sequence of its parts: fixed text, and the values
\* formatted into it.
\* Lines 248-252: except Exception as e -> {'error': str(e)}, 500.
ExceptionResponse(e) == [status |-> 500, error |-> <<e>>]

\* Lines 91 and 113: the handler's own error returns, both of fixed text.
ErrorResponse(msg) == [status |-> 400, error |-> <<msg>>]

\* The exceptions the environment may raise in a stage, whatever the input.
Faults ==
  {"could not connect to server", "relation does not exist", "transform error",
   "TopologyException", "No space left on device", "Failed to write layer",
   "Object is not JSON serializable"}

\* Lines 235-246.
SuccessResponse(l) ==
  [status |-> 200,
   success |-> TRUE,
   total_points_in_buffer |-> Cardinality(l.in_buffer),
   total_points |-> Len(l.points.rows),
   line_count |-> Len(l.lines.rows),
   buffer_size |-> l.buffer_size,
   tier_column |-> TierColumnField(l.tier, l.tier_column.name),
   overall_tier_counts |-> l.tier_counts,
   results_by_line |-> l.results_by_line,
   csv_download |-> l.csv_filename,
   gpkg_download |-> l.gpkg_filename]

\* An exception raised inside the try block ends the invocation.
Raise(r, e) ==
  /\ resp' = [resp EXCEPT ![r] = ExceptionResponse(e)]
  /\ loc' = [loc EXCEPT ![r].raised = e]
  /\ pc' = [pc EXCEPT ![r] = "done"]

Return(r, response) ==
  /\ resp' = [resp EXCEPT ![r] = response]
  /\ pc' = [pc EXCEPT ![r] = "done"]
  /\ UNCHANGED loc

Goto(r, label, l) ==
  /\ pc' = [pc EXCEPT ![r] = label]
  /\ loc' = [loc EXCEPT ![r] = l]
  /\ UNCHANGED resp

\* ------------------------------------------------------------ the handler
\* Lines 83-88: what float(data.get('buffer_size', 30)) and the other
\* data.get calls make of the body.
ParseError(body) ==
  IF body.kind = "none" THEN "400 Bad Request: not JSON"
  ELSE IF body.kind = "null" THEN "'NoneType' object has no attribute 'get'"
  ELSE IF body.buffer_size.kind = "text" THEN "could not convert string to float"
  ELSE ""

BufferSizeOf(body) ==
  IF body.buffer_size.kind = "absent" THEN DefaultBufferSize ELSE body.buffer_size.num

TierColumnOf(body) ==
  IF body.tier_column.kind = "absent" THEN [kind |-> "name", name |-> SeverityName]
  ELSE body.tier_column

\* Lines 82-93.
Parse(r) ==
  /\ pc[r] = "parse"
  /\ LET body == inbox[r] IN
       IF ParseError(body) # "" THEN Raise(r, ParseError(body))
       ELSE IF body.database = "" \/ body.line_table = "" \/ body.point_table = ""
         THEN Return(r, ErrorResponse("Missing required parameters"))
       ELSE Goto(r, "lookup",
                 [loc[r] EXCEPT !.database = body.database,
                                !.line_table = body.line_table,
                                !.point_table = body.point_table,
                                !.buffer_size = BufferSizeOf(body),
                                !.tier_column = TierColumnOf(body)])
  /\ UNCHANGED <<db, clock, files, inbox, probe>>

\* Lines 95-118.
Lookup(r) ==
  /\ pc[r] = "lookup"
  /\ \E fault \in BOOLEAN :
       LET l == loc[r]
           geom_info == GeomInfo(db, l.line_table, l.point_table)
       IN IF fault THEN Raise(r, "could not connect to server")
          ELSE IF l.line_table \notin DOMAIN geom_info \/ l.point_table \notin DOMAIN geom_info
            THEN Return(r, ErrorResponse("Could not find geometry columns for tables"))
          ELSE Goto(r, "read", [l EXCEPT !.line_geom_col = geom_info[l.line_table],
                                         !.point_geom_col = geom_info[l.point_table]])
  /\ UNCHANGED <<db, clock, files, inbox, probe>>

\* Lines 120-124.
Read(r) ==
  /\ pc[r] = "read"
  /\ \E fault \in BOOLEAN :
       LET l == loc[r] IN
       IF fault THEN Raise(r, "relation does not exist")
       ELSE Goto(r, "normalize",
                 [l EXCEPT !.lines = ReadPostgis(db[l.line_table], l.line_geom_col),
                           !.points = ReadPostgis(db[l.point_table], l.point_geom_col),
                           !.read_done = TRUE])
  /\ UNCHANGED <<db, clock, files, inbox, probe>>

\* Lines 126-144.
Normalize(r) ==
  /\ pc[r] = "normalize"
  /\ \E fault \in BOOLEAN :
       LET l == loc[r]
           n == NormalizeCrs(l.lines, l.points)
       IN IF fault THEN Raise(r, "transform error")
          ELSE IF n.err # "" THEN Raise(r, n.err)
          ELSE Goto(r, "analyze", [l EXCEPT !.points = n.points,
                                            !.lines_proj = n.lines_proj,
                                            !.points_proj = n.points_proj])
  /\ UNCHANGED <<db, clock, files, inbox, probe>>

\* Lines 146-195.
Analyze(r) ==
  /\ pc[r] = "analyze"
  /\ \E fault \in BOOLEAN :
       LET l == loc[r]
           a == RunAnalysis(l.lines_proj, l.points_proj, l.buffer_size, l.tier_column)
       IN IF fault THEN Raise(r, "TopologyException")
          ELSE IF a.err # "" THEN Raise(r, a.err)
          ELSE Goto(r, "stamp", [l EXCEPT !.buffers = a.buffers,
                                          !.in_buffer = a.in_buffer,
                                          !.in_line = a.in_line,
                                          !.tier = a.tier,
                                          !.tier_counts = a.tier_counts,
                                          !.results_by_line = a.results_by_line,
                                          !.buffered = TRUE])
  /\ UNCHANGED <<db, clock, files, inbox, probe>>

\* Lines 198-211: datetime.now() is read once; time may have passed since
\* the clock was last read.
Stamp(r) ==
  /\ pc[r] = "stamp"
  /\ \E now \in clock..MaxClock :
       /\ clock' = now
       /\ Goto(r, "csv", [loc[r] EXCEPT !.csv_filename = CsvFilename(Timestamp(now)),
                                        !.gpkg_filename = GpkgFilename(Timestamp(now))])
  /\ UNCHANGED <<db, files, inbox, probe>>

\* Lines 204-207: to_csv replaces the file of that name.
WriteCsv(r) ==
  /\ pc[r] = "csv"
  /\ \E fault \in BOOLEAN :
       IF fault THEN Raise(r, "No space left on device") /\ UNCHANGED files
       ELSE /\ files' = [files EXCEPT ![loc[r].csv_filename] = <<r>>]
            /\ Goto(r, "gpkg", [loc[r] EXCEPT !.csv_done = TRUE, !.layer = 1])
  /\ UNCHANGED <<db, clock, inbox, probe>>

\* Lines 216-233: to_file(gpkg_path, layer=...) adds or replaces one layer of
\* the package of that name.
WriteLayer(r) ==
  /\ pc[r] = "gpkg"
  /\ \E fault \in BOOLEAN :
       LET l == loc[r]
           old == IF files[l.gpkg_filename] = <<>> THEN <<0, 0, 0, 0>>
                  ELSE files[l.gpkg_filename]
       IN IF fault THEN Raise(r, "Failed to write layer") /\ UNCHANGED files
          ELSE /\ files' = [files EXCEPT ![l.gpkg_filename] = [old EXCEPT ![l.layer] = r]]
               /\ Goto(r, IF l.layer = Len(Layers) THEN "respond" ELSE "gpkg",
                        [l EXCEPT !.layer = l.layer + 1])
  /\ UNCHANGED <<db, clock, inbox, probe>>

\* Lines 235-246.
Respond(r) ==
  /\ pc[r] = "respond"
  /\ \E fault \in BOOLEAN :
       IF fault THEN Raise(r, "Object is not JSON serializable")
       ELSE Return(r, SuccessResponse(loc[r]))
  /\ UNCHANGED <<db, clock, files, inbox, probe>>

\* ------------------------------------------------- helpers applied alone
NoProbe == [kind |-> "none"]

\* Lines 156-161 and 241 on a requested name and a set of column names.
TierProbe(p) ==
  [p EXCEPT !.done = TRUE,
            !.tier = ResolveTier(p.tier_column, p.columns),
            !.field = TierColumnField(ResolveTier(p.tier_column, p.columns), p.tier_column)]

\* Lines 134-137 on a centroid.
UtmProbe(p) ==
  [p EXCEPT !.done = TRUE, !.utm_zone = UtmZone(p.lon), !.hemisphere = Hemisphere(p.lat)]

ApplyTier ==
  /\ probe.kind = "tier" /\ ~probe.done
  /\ probe' = TierProbe(probe)
  /\ UNCHANGED <<db, clock, files, inbox, pc, loc, resp>>

ApplyUtm ==
  /\ probe.kind = "utm" /\ ~probe.done
  /\ probe' = UtmProbe(probe)
  /\ UNCHANGED <<db, clock, files, inbox, pc, loc, resp>>

\* ---------------------------------------------------------- initial states
SeqsUpTo(S, n) == UNION {[1..k -> S] : k \in 0..n}

LineGeoms == {<<0, 1>>, <<3, 4>>}
PointCoords == {2, 3, 7}
TierValues == {"null", "int:1", "str:1"}

LineRows == [geom : LineGeoms, val : {"int:7"}]
PointRows == [geom : {<<x, x>> : x \in PointCoords}, val : TierValues]

Table(registered, hasattr, attr, srid, lat, rows) ==
  [registered |-> registered, geomcol |-> GeomName, hasattr |-> hasattr,
   attr |-> attr, srid |-> srid, lat |-> lat, rows |-> rows]

NotesTable == Table(FALSE, FALSE, <<>>, 0, 0, <<>>)

Database(roads, sites) == [roads |-> roads, sites |-> sites, notes |-> NotesTable]

Body(line_table, point_table, buffer_size, tier_column) ==
  [kind |-> "object", database |-> "gis", line_table |-> line_table,
   point_table |-> point_table, buffer_size |-> buffer_size,
   tier_column |-> tier_column]

Num(n) == [kind |-> "num", num |-> n]
NoNum == [kind |-> "absent", num |-> 0]
TextNum == [kind |-> "text", num |-> 0]
Name(s) == [kind |-> "name", name |-> s]
NoName == [kind |-> "absent", name |-> <<>>]
NullName == [kind |-> "null", name |-> <<>>]

TierName == <<"t", "i", "e", "r">>
SEVERITYName == Upper(SeverityName)

\* Bodies that do not get past parsing or lookup.
BadBodies ==
  { [kind |-> "none"], [kind |-> "null"],
    Body("roads", "sites", TextNum, NoName),
    Body("", "sites", Num(1), NoName),
    Body("roads", "notes", Num(1), NoName) }

\* The state every specification starts from, but for its inputs.
InitWith(databases, bodies, active, clocks) ==
  /\ db \in databases
  /\ clock \in clocks
  /\ files = [f \in Filenames |-> <<>>]
  /\ inbox \in {b \in [Reqs -> bodies \cup {NoRequest}] :
                   \A r \in Reqs : b[r] = NoRequest <=> r \notin active}
  /\ pc = [r \in Reqs |-> IF r \in active THEN "parse" ELSE "unused"]
  /\ loc = [r \in Reqs |-> LocInit]
  /\ resp = [r \in Reqs |-> NoResponse]

\* One request against any small database: the analysis proper.
Init ==
  /\ InitWith({Database(Table(TRUE, FALSE, <<>>, 4326, 0, lines),
                         Table(TRUE, TRUE, SeverityName, 3857, 0, points)) :
                  lines \in SeqsUpTo(LineRows, MaxLines),
                  points \in SeqsUpTo(PointRows, MaxPoints)},
              BadBodies \cup
              {Body("roads", "sites", Num(n), t) :
                 n \in {1, 2}, t \in {NoName, Name(SEVERITYName), Name(TierName)}},
              {1}, {MaxClock})
  /\ probe = NoProbe

Next ==
  \/ \E r \in Reqs : Parse(r)
  \/ \E r \in Reqs : Lookup(r)
  \/ \E r \in Reqs : Read(r)
  \/ \E r \in Reqs : Normalize(r)
  \/ \E r \in Reqs : Analyze(r)
  \/ \E r \in Reqs : Stamp(r)
  \/ \E r \in Reqs : WriteCsv(r)
  \/ \E r \in Reqs : WriteLayer(r)
  \/ \E r \in Reqs : Respond(r)

Spec == Init /\ [][Next]_vars

\* One request with any choice of tables against databases whose tables may
\* be empty, without SRID, geographic or projected.
SchemaTables == {"", "roads", "sites", "notes"}

InitSchema ==
  /\ InitWith({Database(Table(TRUE, hasgid, GidName, lsrid, lat, lines),
                         Table(TRUE, TRUE, SeverityName, psrid, lat, points)) :
                  hasgid \in BOOLEAN, lsrid \in {0, 4326, 3857},
                  psrid \in {0, 4326, 3857}, lat \in {-1, 0},
                  lines \in SeqsUpTo([geom : {<<0, 1>>}, val : {"int:7"}], 1),
                  points \in SeqsUpTo([geom : {<<1, 1>>}, val : {"str:high"}], 1)},
              {[kind |-> "none"], [kind |-> "null"]} \cup
              {Body(lt, pt, n, t) :
                 lt \in SchemaTables, pt \in SchemaTables,
                 n \in {Num(1), NoNum, TextNum}, t \in {NoName, NullName}},
              {1}, {MaxClock})
  /\ probe = NoProbe

SpecSchema == InitSchema /\ [][Next]_vars

\* Every invocation at once against one database, from clock 0.
InitConc ==
  /\ InitWith({Database(Table(TRUE, FALSE, <<>>, 3857, 0,
                               <<[geom |-> <<0, 1>>, val |-> "int:7"]>>),
                         Table(TRUE, TRUE, SeverityName, 3857, 0,
                               <<[geom |-> <<1, 1>>, val |-> "str:high"]>>))},
              {Body("roads", "sites", Num(n), NoName) : n \in {1, 2}},
              Reqs, {0})
  /\ probe = NoProbe

SpecConc == InitConc /\ [][Next]_vars

\* No request: a helper on its own, on every argument within the bounds.
InitIdle ==
  InitWith({Database(NotesTable, NotesTable)}, {}, {}, {0})

InitTier ==
  /\ InitIdle
  /\ probe \in [kind : {"tier"}, done : {FALSE},
                 tier_column : NamesUpTo(MaxNameLen),
                 columns : {{GeomName} \cup A : A \in {B \in SUBSET NamesUpTo(MaxNameLen) :
                                                          Cardinality(B) <= 1}},
                 tier : {NoTier}, field : {<<>>}]

NextTier == ApplyTier

SpecTier == InitTier /\ [][NextTier]_vars

InitUtm ==
  /\ InitIdle
  /\ probe \in [kind : {"utm"}, done : {FALSE}, lon : (-180)..180,
                 lat : (-MaxLat)..MaxLat, utm_zone : {0}, hemisphere : {""}]

NextUtm == ApplyUtm

SpecUtm == InitUtm /\ [][NextUtm]_vars

\* ================================================================ claims
IsSuccess(x) == "success" \in DOMAIN x

IsStructuredError(x) ==
  /\ DOMAIN x = {"status", "error"}
  /\ x.status \in {400, 500}
  /\ Len(x.error) >= 1

SuccessFields ==
  {"status", "success", "total_points_in_buffer", "total_points", "line_count",
   "buffer_size", "tier_column", "overall_tier_counts", "results_by_line",
   "csv_download", "gpkg_download"}

RECURSIVE SumMap(_)
SumMap(f) ==
  IF DOMAIN f = {} THEN 0
  ELSE LET k == CHOOSE x \in DOMAIN f : TRUE
       IN f[k] + SumMap([x \in DOMAIN f \ {k} |-> f[x]])

\* Some column equals the requested name when both are lower-cased.
MatchesIgnoringCase(tier_column, columns) ==
  \E c \in columns : Lower(c) = Lower(tier_column)

\* C1 (P1): once an invocation has computed the buffer join, every point of
\* every line's containment set (within that line's buffer) is in the global
\* containment set (within the union of all buffers).
C1_PerLineWithinUnion ==
  \A r \in Reqs : loc[r].buffered =>
    \A i \in 1..Len(loc[r].in_line) : loc[r].in_line[i] \subseteq loc[r].in_buffer

\* Two lines with overlapping buffers share a point, and a third point is in
\* no buffer.
C1_Witness ==
  \E r \in Reqs :
    /\ loc[r].buffered
    /\ Len(loc[r].in_line) = 2
    /\ loc[r].in_line[1] \cap loc[r].in_line[2] # {}
    /\ loc[r].in_line[1] # loc[r].in_line[2]

\* C2: every point counted in total_points_in_buffer is in the containment
\* set of at least one line, and so is counted in an entry of results_by_line.
C2_UnionWithinSomeLine ==
  \A r \in Reqs : loc[r].buffered =>
    \A j \in loc[r].in_buffer :
      /\ \E i \in 1..Len(loc[r].in_line) : j \in loc[r].in_line[i]
      /\ Len(loc[r].results_by_line) >= 1

\* C3 (P5): unless the environment fails, an invocation that read no points
\* from the point table and some lines from the line table, both with an
\* SRID, returns success with zero counts; one that read no lines
\* ends before buffering in an error response (whatever its message), never
\* in success.
C3_EmptyInputPolicy ==
  \A r \in Reqs : (pc[r] = "done" /\ loc[r].read_done) =>
    /\ (Len(loc[r].points.rows) = 0 /\ Len(loc[r].lines.rows) > 0
          /\ loc[r].line_table = "roads" /\ loc[r].point_table = "sites"
          /\ db[loc[r].line_table].srid # 0 /\ db[loc[r].point_table].srid # 0
          /\ loc[r].raised \notin Faults /\ loc[r].tier_column.kind = "name") =>
         /\ IsSuccess(resp[r])
         /\ resp[r].total_points = 0
         /\ resp[r].total_points_in_buffer = 0
         /\ resp[r].results_by_line = <<>>
    /\ Len(loc[r].lines.rows) = 0 =>
         /\ ~IsSuccess(resp[r])
         /\ ~loc[r].buffered
         /\ IsStructuredError(resp[r])

\* The counts of a response: everything but the tier fields.
CountsOf(total_in_buffer, total, line_count, results) ==
  <<total_in_buffer, total, line_count,
    [i \in 1..Len(results) |-> <<results[i].line_id, results[i].total_points>>]>>

\* The counts the same collections give with a tier column that is found
\* (the attribute the points have).
CountsWithTier(l) ==
  LET a == RunAnalysis(l.lines_proj, l.points_proj, l.buffer_size, Name(l.points.attr))
  IN CountsOf(Cardinality(a.in_buffer), Len(l.points.rows), Len(l.lines.rows),
              a.results_by_line)

TierFallbackCase(r) ==
  /\ pc[r] = "done"
  /\ IsSuccess(resp[r])
  /\ ~MatchesIgnoringCase(loc[r].tier_column.name, loc[r].points.cols)

\* C4 (P3), as stated: with no case-insensitive match, tier_column is the
\* sentinel, overall_tier_counts is empty, every entry of results_by_line
\* carries an empty tier_counts mapping, and the counts are those of a run
\* with a matching tier column.
C4_FallbackEmptyMappings ==
  \A r \in Reqs : TierFallbackCase(r) =>
    /\ IsNotFound(resp[r].tier_column)
    /\ resp[r].overall_tier_counts = <<>>
    /\ \A i \in 1..Len(resp[r].results_by_line) :
         /\ "tier_counts" \in DOMAIN resp[r].results_by_line[i]
         /\ resp[r].results_by_line[i].tier_counts = <<>>
    /\ CountsOf(resp[r].total_points_in_buffer, resp[r].total_points,
                resp[r].line_count, resp[r].results_by_line) = CountsWithTier(loc[r])

\* C4 (P3), amended: with no case-insensitive match, tier_column is the
\* sentinel, overall_tier_counts is empty, no entry of results_by_line has a
\* tier_counts key, and the counts are those of a run with a matching tier
\* column.
C4_FallbackNoMappings ==
  \A r \in Reqs : TierFallbackCase(r) =>
    /\ IsNotFound(resp[r].tier_column)
    /\ resp[r].overall_tier_counts = <<>>
    /\ \A i \in 1..Len(resp[r].results_by_line) :
         DOMAIN resp[r].results_by_line[i] = {"line_id", "total_points"}
    /\ CountsOf(resp[r].total_points_in_buffer, resp[r].total_points,
                resp[r].line_count, resp[r].results_by_line) = CountsWithTier(loc[r])

\* A fallback response with entries for two lines, while the points do have a
\* tier attribute with values.
C4_Witness ==
  \E r \in Reqs :
    /\ TierFallbackCase(r)
    /\ Len(resp[r].results_by_line) = 2
    /\ resp[r].total_points_in_buffer = 2
    /\ \E j \in 1..Len(loc[r].points.rows) : loc[r].points.rows[j].val # "null"

\* C5: whenever some column equals the requested tier name ignoring case, the
\* tier column is resolved to such a column and the tier_column field is not
\* the sentinel.
C5_CaseInsensitive ==
  (probe.kind = "tier" /\ probe.done
     /\ MatchesIgnoringCase(probe.tier_column, probe.columns)) =>
    /\ probe.tier.found
    /\ probe.tier.name \in probe.columns
    /\ Lower(probe.tier.name) = Lower(probe.tier_column)
    /\ ~IsNotFound(probe.field)

\* C6: with the tier column resolved, the counts of overall_tier_counts sum
\* to total_points_in_buffer, the string form of every value among
\* points_in_buffer is one of its keys, and each entry's tier_counts sums to
\* its total_points.
C6_TierCountsSum ==
  \A r \in Reqs : (loc[r].buffered /\ Truthy(loc[r].tier)) =>
    /\ SumMap(loc[r].tier_counts) = Cardinality(loc[r].in_buffer)
    /\ \A j \in loc[r].in_buffer :
         loc[r].points_proj.rows[j].val # "null" =>
           Str(loc[r].points_proj.rows[j].val) \in DOMAIN loc[r].tier_counts
    /\ \A i \in 1..Len(loc[r].results_by_line) :
         SumMap(loc[r].results_by_line[i].tier_counts)
           = loc[r].results_by_line[i].total_points

\* C7: a failure at any stage ends the invocation in a structured error
\* response carrying its message; a finished invocation has either such a
\* response or a success response with every field, and success comes only
\* after the buffer join and both exports.
C7_ErrorsStructured ==
  \A r \in Reqs :
    /\ loc[r].raised # "" =>
         /\ pc[r] = "done"
         /\ IsStructuredError(resp[r])
         /\ resp[r].error = <<loc[r].raised>>
    /\ pc[r] = "done" =>
         \/ IsStructuredError(resp[r])
         \/ /\ DOMAIN resp[r] = SuccessFields
            /\ resp[r].status = 200
            /\ loc[r].raised = ""
            /\ loc[r].buffered /\ loc[r].csv_done /\ loc[r].layer = Len(Layers) + 1
            /\ files[resp[r].csv_download] # <<>>
            /\ \A k \in 1..Len(Layers) : files[resp[r].gpkg_download][k] # 0
    /\ pc[r] # "done" => resp[r] = NoResponse

\* The GeoPackage write fails after the CSV was written.
C7_Witness ==
  \E r \in Reqs :
    /\ loc[r].raised = "Failed to write layer"
    /\ loc[r].csv_done
    /\ loc[r].layer = Len(Layers)

\* C8: two invocations that have both named their files have different CSV
\* names and different GeoPackage names.
C8_DistinctFilenames ==
  \A r1 \in Reqs : \A r2 \in Reqs \ {r1} :
    (loc[r1].csv_filename # NoFile /\ loc[r2].csv_filename # NoFile) =>
      /\ loc[r1].csv_filename # loc[r2].csv_filename
      /\ loc[r1].gpkg_filename # loc[r2].gpkg_filename

\* The tables of a request without a registered geometry column.
Unregistered(l) == {t \in {l.line_table, l.point_table} : ~db[t].registered}

\* C9: unless the connection fails, an invocation whose tables are not both
\* registered ends, before any read, in an error that names the tables that
\* failed; one whose tables are both registered reads each with the
\* geometry column registered for it.
C9_GeometryNotFoundReported ==
  \A r \in Reqs :
    (pc[r] \notin {"unused", "parse", "lookup"} /\ loc[r].line_table # ""
       /\ loc[r].raised # "could not connect to server") =>
      /\ Unregistered(loc[r]) # {} =>
           /\ pc[r] = "done"
           /\ IsStructuredError(resp[r])
           /\ ~loc[r].read_done
           /\ Unregistered(loc[r]) \subseteq Range(resp[r].error)
      /\ Unregistered(loc[r]) = {} =>
           /\ loc[r].line_geom_col = db[loc[r].line_table].geomcol
           /\ loc[r].point_geom_col = db[loc[r].point_table].geomcol
           /\ (pc[r] = "done" /\ ~loc[r].read_done) => loc[r].raised # ""

\* C10: for every centroid longitude of -180..180 the zone is
\* floor((lon + 180) / 6) + 1 and lies in 1..60, and the hemisphere is north
\* exactly when lat >= 0.
C10_UtmZoneValid ==
  (probe.kind = "utm" /\ probe.done) =>
    /\ probe.utm_zone = FloorDiv(probe.lon + 180, 6) + 1
    /\ probe.utm_zone \in 1..60
    /\ probe.hemisphere = (IF probe.lat >= 0 THEN "north" ELSE "south")

====
